---- MODULE Spec2Model ----
(***************************************************************************)
(* Model of src/sae_ts/baselines/analysis.py: the four steering-vector     *)
(* derivations, the scale sweep of analyse_steer and the run loop of the   *)
(* script.                                                                 *)
(*                                                                         *)
(* Numbers.  Tensors are vectors of dimension 2 in fixed point: a          *)
(* component x stands for the float x / FP.  Rubric scores are exact       *)
(* rationals <<numerator, denominator>>.                                   *)
(*                                                                         *)
(* External collaborators (the transformer, the evaluator, the SAE         *)
(* libraries, the file system) are inputs: their results are drawn from    *)
(* small sets and each call may raise.                                     *)
(***************************************************************************)
EXTENDS Integers, Sequences, FiniteSets, TLC

VARIABLES
    pc,                     \* position of the script
    path,                   \* index into paths of the configuration in work
    mi,                     \* index into Methods of the method in work
    steer,                  \* the steering vector held by the run loop
    loaded,                 \* the last call of load_sae_model: flag read, back-end
    oracle,                 \* behaviour of the external evaluator in this run
    si,                     \* analyse_steer: index of the next scale
    texts,                  \* analyse_steer: the batch of the current scale
    all_texts,              \* analyse_steer: [(scale, texts)]
    avg_score,              \* analyse_steer: per-scale mean score
    avg_coh,                \* analyse_steer: per-scale mean coherence
    individual_scores,      \* analyse_steer: per-scale list of sample scores
    individual_coherences,  \* analyse_steer: per-scale list of sample coherences
    individual_products,    \* analyse_steer: per-scale list of sample products
    product,                \* analyse_steer: per-scale product of the means
    result,                 \* analyse_steer: the summary record
    calls,                  \* analyse_steer: external calls made, in order
    injected,               \* analyse_steer: vectors handed to steer_model
    printed,                \* evaluator errors logged in this call
    results,                \* run loop: results
    graph_data_list,        \* run loop: graph_data_list
    started,                \* pairs for which analyse_steer was entered
    disk,                   \* files written by this run
    err                     \* the exception that ended the run, or NoErr

vars == <<pc, path, mi, steer, loaded, oracle, si, texts, all_texts, avg_score, avg_coh,
          individual_scores, individual_coherences, individual_products,
          product, result, calls, injected, printed, results,
          graph_data_list, started, disk, err>>

sweepVars == <<si, texts, all_texts, avg_score, avg_coh, individual_scores,
               individual_coherences, individual_products, calls, injected,
               printed>>

loopVars == <<path, mi, steer, loaded, results, graph_data_list, started>>

-----------------------------------------------------------------------------
(* Bounds of the model *)

\* number of configuration directories in paths (the script lists nine)
NumPaths == 2

\* number of texts of a batch that the model materialises
MaxBatch == 2

\* fixed-point unit: the float 1.0
FP == 1000

\* tolerance, in fixed-point units, of a unit-norm comparison
Tol == 3

-----------------------------------------------------------------------------
(* Program constants *)

N_SAMPLES == 256

Methods == <<"ActSteer", "SAE", "OptimisedSteer", "PinverseSteer">>

paths == [k \in 1..NumPaths |-> k]

NoErr == [step |-> "none", kind |-> "none", path |-> 0, method |-> "none",
          msg |-> <<>>]

\* the value of a tensor after a division by zero
NaN == <<>>

-----------------------------------------------------------------------------
(* Generic helpers *)

Abs(x) == IF x < 0 THEN -x ELSE x

Min(a, b) == IF a < b THEN a ELSE b

\* a / b rounded to the nearest integer, b # 0
RoundDiv(a, b) ==
    LET n == IF b < 0 THEN -a ELSE a
        d == Abs(b)
    IN  (2 * n + d) \div (2 * d)

RECURSIVE ISqrtBetween(_, _, _)
ISqrtBetween(n, lo, hi) ==
    IF lo >= hi THEN lo
    ELSE LET mid == (lo + hi + 1) \div 2
         IN  IF mid * mid <= n THEN ISqrtBetween(n, mid, hi)
             ELSE ISqrtBetween(n, lo, mid - 1)

\* floor of the square root
ISqrt(n) == ISqrtBetween(n, 0, Min(n, 46340))

-----------------------------------------------------------------------------
(* Tensors: vectors of dimension 2 in fixed point; NaN is the result of a   *)
(* division by a zero norm.                                                 *)

Dim == 1..2

Dot(u, v) == u[1] * v[1] + u[2] * v[2]

\* torch.norm(v)
Norm(v) == IF v = NaN THEN NaN ELSE ISqrt(Dot(v, v))

\* v / torch.norm(v)
Normalise(v) ==
    IF v = NaN THEN NaN
    ELSE LET n == Norm(v)
         IN  IF n = 0 THEN NaN
             ELSE [k \in Dim |-> RoundDiv(v[k] * FP, n)]

\* v * c for an integer-valued scalar c
Scale(v, c) == IF v = NaN THEN NaN ELSE [k \in Dim |-> v[k] * c]

Sub(u, v) == IF u = NaN \/ v = NaN THEN NaN ELSE [k \in Dim |-> u[k] - v[k]]

Add(u, v) == IF u = NaN \/ v = NaN THEN NaN ELSE [k \in Dim |-> u[k] + v[k]]

\* W @ v, W a 2x2 matrix of integer-valued entries
MatVec(W, v) ==
    IF v = NaN THEN NaN
    ELSE [r \in Dim |-> W[r][1] * v[1] + W[r][2] * v[2]]

\* torch.linalg.pinv(W) for a 2x2 matrix, as num / den: the inverse when W is
\* invertible, W^T / ||W||_F^2 when W has rank 1, the zero matrix when W = 0
Pinv(W) ==
    LET det  == W[1][1] * W[2][2] - W[1][2] * W[2][1]
        frob == W[1][1] * W[1][1] + W[1][2] * W[1][2]
                + W[2][1] * W[2][1] + W[2][2] * W[2][2]
    IN  IF det # 0
        THEN [num |-> << <<W[2][2], -W[1][2]>>, <<-W[2][1], W[1][1]>> >>,
              den |-> det]
        ELSE IF frob # 0
        THEN [num |-> << <<W[1][1], W[2][1]>>, <<W[1][2], W[2][2]>> >>,
              den |-> frob]
        ELSE [num |-> << <<0, 0>>, <<0, 0>> >>, den |-> 1]

\* v @ P for a row vector v and a rational matrix P
VecMat(v, P) ==
    IF v = NaN THEN NaN
    ELSE [c \in Dim |-> RoundDiv(v[1] * P.num[1][c] + v[2] * P.num[2][c], P.den)]

\* whether a vector has unit L2 norm, within the tolerance
IsUnit(v) == v # NaN /\ Abs(Norm(v) - FP) <= Tol

-----------------------------------------------------------------------------
(* load_sae_model *)

\* config.get(key, default)
Get(config, key, default) ==
    IF key \in DOMAIN config THEN config[key] ELSE default

\* load_sae_model falling back to the default back-end on an unknown value
load_sae_model_DefaultsToSaelens(config, hub) ==
    LET sae_load_method == Get(config, "sae_load_method", "saelens")
    IN  IF sae_load_method = "gemmascope"
        THEN [raised |-> FALSE, backend |-> "gemmascope", W_dec |-> hub.W_dec]
        ELSE [raised |-> FALSE, backend |-> "saelens", W_dec |-> hub.W_dec]

\* load_sae_model(config); hub is what the pretrained-weights library returns.
\* The result is the autoencoder, or the exception raised.
load_sae_model(config, hub) ==
    LET sae_load_method == Get(config, "sae_load_method", "saelens")
    IN  IF sae_load_method = "saelens"
        THEN [raised |-> FALSE, backend |-> "saelens", W_dec |-> hub.W_dec]
        ELSE IF sae_load_method = "gemmascope"
        THEN [raised |-> FALSE, backend |-> "gemmascope", W_dec |-> hub.W_dec]
        ELSE [raised |-> TRUE, type |-> "ValueError",
              msg |-> <<"Unknown sae_load_method: ", sae_load_method>>]

-----------------------------------------------------------------------------
(* The derivations *)

\* sum over config['features'] of W_dec[ft_id] * ft_scale
RECURSIVE SumFeatures(_, _)
SumFeatures(W_dec, features) ==
    IF features = <<>> THEN <<0, 0>>
    ELSE Add(Scale(W_dec[Head(features)[1]], Head(features)[2]),
             SumFeatures(W_dec, Tail(features)))

\* target = zeros; target[ft_id] = ft_scale for each feature, in order
RECURSIVE BuildTarget(_, _)
BuildTarget(target, features) ==
    IF features = <<>> THEN target
    ELSE BuildTarget([target EXCEPT ![Head(features)[1]] = Head(features)[2] * FP],
                     Tail(features))

load_sae_steer(config, hub) ==
    LET sae == load_sae_model(config, hub)
    IN  IF sae.raised THEN sae
        ELSE [raised |-> FALSE,
              vec |-> Normalise(SumFeatures(sae.W_dec, config.features))]

single_step_steer(adapter, target, bias_scale) ==
    LET steer_vec == Normalise(MatVec(adapter.W, target))
        bias_vec  == Scale(Normalise(MatVec(adapter.W, adapter.b)), bias_scale)
    IN  Normalise(Sub(steer_vec, bias_vec))

pinverse_steer(adapter, target, target_scale) ==
    LET t      == Scale(Normalise(target), target_scale)
        W_pinv == Pinv(adapter.W)
    IN  VecMat(Sub(t, adapter.b), W_pinv)

load_optimised_steer(config, hub, adapter) ==
    LET sae == load_sae_model(config, hub)
    IN  IF sae.raised THEN sae
        ELSE [raised |-> FALSE,
              vec |-> single_step_steer(adapter,
                          BuildTarget(<<0, 0>>, config.features), 1)]

load_pinv_steer(config, hub, adapter) ==
    LET sae == load_sae_model(config, hub)
    IN  IF sae.raised THEN sae
        ELSE [raised |-> FALSE,
              vec |-> pinverse_steer(adapter,
                          BuildTarget(<<0, 0>>, config.features), 1)]

\* steer / torch.norm(steer) of the run loop, applied to the activation-
\* difference vector
ActSteerVector(raw) == Normalise(raw)

-----------------------------------------------------------------------------
(* Inputs of the derivations *)

\* values of the sae_load_method flag; Absent: the key is not in the file
Absent == "<absent>"

LoadMethodValues == {Absent, "saelens", "gemmascope", "sae_lens", "None"}

FeatureLists == { << <<1, 1>> >>, << <<2, 2>> >>, << <<1, 1>>, <<2, 1>> >> }

MakeConfig(flag, features) ==
    IF flag = Absent THEN [features |-> features]
    ELSE [features |-> features, sae_load_method |-> flag]

Configs == {MakeConfig(f, fs) : f \in LoadMethodValues, fs \in FeatureLists}

\* decoder matrices of the pretrained autoencoder (rows are feature directions)
Hubs == { [W_dec |-> << <<FP, 0>>, <<0, FP>> >>],
          [W_dec |-> << <<600, 800>>, <<-800, 600>> >>] }

\* activation-difference vectors returned by get_activation_steering (nonzero)
ActRaws == { <<3000, 4000>>, <<-2000, 1000>>, <<0, 500>> }

\* trained adapters (W, b): an invertible, a sheared and a rank-1 weight
\* matrix; none makes a norm of single_step_steer vanish
Adapters == { [W |-> << <<1, 0>>, <<0, 1>> >>, b |-> <<-FP, 500>>],
              [W |-> << <<1, 1>>, <<0, 1>> >>, b |-> <<FP, -FP>>],
              [W |-> << <<1, 1>>, <<1, 1>> >>, b |-> <<0, -FP>>] }

-----------------------------------------------------------------------------
(* Scores: exact rationals <<n, d>> in lowest terms, d > 0 *)

RECURSIVE GCD(_, _)
GCD(a, b) == IF b = 0 THEN a ELSE GCD(b, a % b)

Rat(n, d) ==
    LET g == GCD(Abs(n), d)
    IN  IF g = 0 THEN <<0, 1>> ELSE <<n \div g, d \div g>>

RAdd(a, b) == Rat(a[1] * b[2] + b[1] * a[2], a[2] * b[2])

RMul(a, b) == Rat(a[1] * b[1], a[2] * b[2])

RLess(a, b) == a[1] * b[2] < b[1] * a[2]

RECURSIVE RSum(_)
RSum(xs) == IF xs = <<>> THEN <<0, 1>> ELSE RAdd(Head(xs), RSum(Tail(xs)))

\* sum(xs) / len(xs)
Mean(xs) == LET t == RSum(xs) IN Rat(t[1], t[2] * Len(xs))

\* Rescale without the shift of the rubric's lower end: item / 9
Rescale_NoShift(item) == Rat(item, 9)

\* (item - 1) / 9
Rescale(item) == Rat(item - 1, 9)

\* ExtractScores leaving out the items of samples whose evaluation failed
ExtractScores_SkipErrors(evaluated) ==
    LET Scored(item) == ~item.error
        kept == SelectSeq(evaluated, Scored)
    IN  [k \in 1..Len(kept) |-> kept[k].score]

\* [item['score'] for item in evaluated]
ExtractScores(evaluated) == [k \in 1..Len(evaluated) |-> evaluated[k].score]

\* [(item - 1) / 9 for item in raw]
RescaleAll(raw) == [k \in 1..Len(raw) |-> Rescale(raw[k])]

\* [s * c for s, c in zip(score, coherence)]
ZipProducts(a, b) ==
    [k \in 1..Min(Len(a), Len(b)) |-> RMul(a[k], b[k])]

\* Range with the stop value included
RECURSIVE Range_Inclusive(_, _, _)
Range_Inclusive(start, stop, step) ==
    IF start > stop THEN <<>>
    ELSE <<start>> \o Range_Inclusive(start + step, stop, step)

\* list(range(start, stop, step)), step > 0
RECURSIVE Range(_, _, _)
Range(start, stop, step) ==
    IF start >= stop THEN <<>>
    ELSE <<start>> \o Range(start + step, stop, step)

scales == Range(0, 320, 20)

\* max(xs): the first of the greatest elements
RECURSIVE MaxFrom(_, _)
MaxFrom(best, xs) ==
    IF xs = <<>> THEN best
    ELSE MaxFrom(IF RLess(best, Head(xs)) THEN Head(xs) ELSE best, Tail(xs))

PyMax(xs) == MaxFrom(Head(xs), Tail(xs))

\* PyIndex returning the last position holding x
PyIndex_Last(xs, x) == CHOOSE k \in 1..Len(xs) :
                           /\ xs[k] = x
                           /\ \A h \in (k + 1)..Len(xs) : xs[h] # x

\* xs.index(x): the first position holding x
PyIndex(xs, x) == CHOOSE k \in 1..Len(xs) :
                      /\ xs[k] = x
                      /\ \A h \in 1..(k - 1) : xs[h] # x

\* lines 226-240 of analyse_steer: the per-scale products and the summary
ProductCurve(coh, score) == ZipProducts(coh, score)

Summary(p, method, prod) ==
    LET max_product == PyMax(prod)
        max_index   == PyIndex(prod, max_product)
    IN  [path |-> p, method |-> method,
         max_product |-> max_product, scale_at_max |-> scales[max_index]]

-----------------------------------------------------------------------------
(* The external generator and evaluator *)

RawScores == 1..10

Shapes == {"low", "high", "rise", "fall", "peak", "twin", "split"}

\* raw rubric score of sample j at the i-th scale under a shape
RawOf(shape, i, j) ==
    CASE shape = "low"   -> 1
      [] shape = "high"  -> 10
      [] shape = "rise"  -> Min(10, i)
      [] shape = "fall"  -> IF i > 10 THEN 1 ELSE 11 - i
      [] shape = "peak"  -> IF Abs(i - 8) > 8 THEN 1 ELSE 10 - Abs(i - 8)
      [] shape = "twin"  -> IF i \in {4, 12} THEN 9 ELSE 3
      [] shape = "split" -> IF j % 2 = 1 THEN Min(10, i) ELSE 2

\* the evaluator's behaviour in a run: the curve of each criterion, the
\* samples whose evaluation fails (<<scale index, sample, criterion>>) and
\* the raw score of the best-effort result returned for those
Oracles ==
    { [score |-> s, coh |-> c, errs |-> {}, errRaw |-> 1] :
          s \in Shapes \ {"high", "fall"}, c \in {"high", "fall", "peak"} }
    \cup
    { [score |-> "rise", coh |-> "fall", errs |-> e, errRaw |-> r] :
          e \in { {<<1, 1, 1>>}, {<<3, 2, 2>>, <<3, 1, 1>>}, {<<16, 1, 2>>} },
          r \in {1, 10} }

\* steer_model(model, steer, hp, prompt, scale, n_samples): a batch of
\* n_samples texts, of which the model keeps MaxBatch
steer_model(vec, scale, n_samples) ==
    [k \in 1..Min(n_samples, MaxBatch) |-> [scale |-> scale, sample |-> k]]

\* multi_criterion_evaluation(texts, [score, coherence], prompt, print_errors):
\* per criterion, one item per text; a sample whose evaluation fails still
\* gets an item, holding the best-effort score
multi_criterion_evaluation(txts, i, orc) ==
    [c \in 1..2 |->
        [k \in 1..Len(txts) |->
            IF <<i, k, c>> \in orc.errs
            THEN [score |-> orc.errRaw, error |-> TRUE]
            ELSE [score |-> RawOf(IF c = 1 THEN orc.score ELSE orc.coh, i, k),
                  error |-> FALSE]]]

\* what print_errors=True logs for a batch
LoggedErrors(i, evaluated) ==
    {<<i, k, c>> : k \in 1..Len(evaluated[1]), c \in 1..2} \cap
    {e \in (1..Len(scales)) \X (1..Len(evaluated[1])) \X (1..2) :
        evaluated[e[3]][e[2]].error}

-----------------------------------------------------------------------------
(* The script *)

Method == Methods[mi]

NoLoad == [flag |-> "none", backend |-> "none"]

\* what a call of load_sae_model read and returned
Loaded(config, sae) ==
    [flag |-> Get(config, "sae_load_method", Absent),
     backend |-> IF sae.raised THEN "none" ELSE sae.backend]

File(kind, p, method, complete) ==
    [kind |-> kind, path |-> p, method |-> method, complete |-> complete]

\* an exception leaves the script: nothing after the raising line runs
Raise(step, kind) ==
    /\ pc' = "aborted"
    /\ err' = [step |-> step, kind |-> kind, path |-> path, method |-> Method,
               msg |-> <<>>]

Init ==
    /\ pc = "load"
    /\ path = 1
    /\ mi = 1
    /\ steer = NaN
    /\ loaded = NoLoad
    /\ oracle \in Oracles
    /\ si = 1
    /\ texts = <<>>
    /\ all_texts = <<>>
    /\ avg_score = <<>>
    /\ avg_coh = <<>>
    /\ individual_scores = <<>>
    /\ individual_coherences = <<>>
    /\ individual_products = <<>>
    /\ product = <<>>
    /\ result = <<>>
    /\ calls = <<>>
    /\ injected = <<>>
    /\ printed = {}
    /\ results = <<>>
    /\ graph_data_list = <<>>
    /\ started = <<>>
    /\ disk = {}
    /\ err = NoErr

\* lines 324-327: the activation-difference vector, normalised by the loop
LoadActSteer ==
    /\ pc = "load" /\ Method = "ActSteer"
    /\ \E raw \in ActRaws : steer' = ActSteerVector(raw)
    /\ pc' = "analyse"
    /\ UNCHANGED <<path, mi, loaded, oracle, sweepVars, product, result, results,
                   graph_data_list, started, disk, err>>

\* lines 334-335
LoadSaeSteer ==
    /\ pc = "load" /\ Method = "SAE"
    /\ \E config \in Configs, hub \in Hubs :
          LET r == load_sae_steer(config, hub)
          IN  /\ ~r.raised
              /\ steer' = r.vec
              /\ loaded' = Loaded(config, load_sae_model(config, hub))
    /\ pc' = "analyse"
    /\ UNCHANGED <<path, mi, oracle, sweepVars, product, result, results,
                   graph_data_list, started, disk, err>>

\* lines 342-343
LoadOptimisedSteer ==
    /\ pc = "load" /\ Method = "OptimisedSteer"
    /\ \E config \in Configs, hub \in Hubs, adapter \in Adapters :
          LET r == load_optimised_steer(config, hub, adapter)
          IN  /\ ~r.raised
              /\ steer' = r.vec
              /\ loaded' = Loaded(config, load_sae_model(config, hub))
    /\ pc' = "analyse"
    /\ UNCHANGED <<path, mi, oracle, sweepVars, product, result, results,
                   graph_data_list, started, disk, err>>

\* lines 350-351
LoadPinvSteer ==
    /\ pc = "load" /\ Method = "PinverseSteer"
    /\ \E config \in Configs, hub \in Hubs, adapter \in Adapters :
          LET r == load_pinv_steer(config, hub, adapter)
          IN  /\ ~r.raised
              /\ steer' = r.vec
              /\ loaded' = Loaded(config, load_sae_model(config, hub))
    /\ pc' = "analyse"
    /\ UNCHANGED <<path, mi, oracle, sweepVars, product, result, results,
                   graph_data_list, started, disk, err>>

\* load_sae_model raises ValueError inside one of the three loaders using it
LoadUnknownMethod ==
    /\ pc = "load" /\ Method # "ActSteer"
    /\ \E config \in Configs, hub \in Hubs :
          LET r == load_sae_model(config, hub)
          IN  /\ r.raised
              /\ pc' = "aborted"
              /\ err' = [step |-> "load", kind |-> r.type, path |-> path,
                         method |-> Method, msg |-> r.msg]
              /\ loaded' = Loaded(config, r)
    /\ UNCHANGED <<path, mi, steer, oracle, sweepVars, product, result,
                   results, graph_data_list, started, disk>>

\* a configuration or weight file is missing, or a library call raises
LoadFails ==
    /\ pc = "load"
    /\ Raise("load", "OSError")
    /\ UNCHANGED <<path, mi, steer, loaded, oracle, sweepVars, product, result,
                   results, graph_data_list, started, disk>>

\* analyse_steer, lines 179-197
AnalyseStart ==
    /\ pc = "analyse"
    /\ started' = Append(started, <<path, Method>>)
    /\ si' = 1
    /\ texts' = <<>>
    /\ all_texts' = <<>>
    /\ avg_score' = <<>>
    /\ avg_coh' = <<>>
    /\ individual_scores' = <<>>
    /\ individual_coherences' = <<>>
    /\ individual_products' = <<>>
    /\ calls' = <<>>
    /\ injected' = <<>>
    /\ printed' = {}
    /\ product' = <<>>
    /\ result' = <<>>
    /\ loaded' = NoLoad
    /\ pc' = IF scales = <<>> THEN "report" ELSE "generate"
    /\ UNCHANGED <<path, mi, steer, oracle, results, graph_data_list, disk, err>>

\* criteria.json cannot be read
AnalyseStartFails ==
    /\ pc = "analyse"
    /\ started' = Append(started, <<path, Method>>)
    /\ Raise("criteria", "OSError")
    /\ UNCHANGED <<path, mi, steer, loaded, oracle, sweepVars, product, result,
                   results, graph_data_list, disk>>

\* Generate with the dump of all_texts inside the loop
Generate_DumpsTexts ==
    /\ pc = "generate"
    /\ LET scale == scales[si]
           batch == steer_model(steer, scale, N_SAMPLES)
       IN  /\ texts' = batch
           /\ all_texts' = Append(all_texts, <<scale, batch>>)
           /\ calls' = Append(calls, [fn |-> "steer_model", scale |-> scale,
                                      n_samples |-> N_SAMPLES])
           /\ injected' = Append(injected, [vec |-> steer, scale |-> scale])
    /\ disk' = disk \cup {File("generated_texts", paths[path], Method, TRUE)}
    /\ pc' = "evaluate"
    /\ UNCHANGED <<path, mi, steer, loaded, oracle, si, avg_score, avg_coh,
                   individual_scores, individual_coherences,
                   individual_products, printed, product, result, results,
                   graph_data_list, started, err>>

\* lines 200-201
Generate ==
    /\ pc = "generate"
    /\ LET scale == scales[si]
           batch == steer_model(steer, scale, N_SAMPLES)
       IN  /\ texts' = batch
           /\ all_texts' = Append(all_texts, <<scale, batch>>)
           /\ calls' = Append(calls, [fn |-> "steer_model", scale |-> scale,
                                      n_samples |-> N_SAMPLES])
           /\ injected' = Append(injected, [vec |-> steer, scale |-> scale])
    /\ pc' = "evaluate"
    /\ UNCHANGED <<path, mi, steer, loaded, oracle, si, avg_score, avg_coh,
                   individual_scores, individual_coherences,
                   individual_products, printed, product, result, results,
                   graph_data_list, started, disk, err>>

GenerateFails ==
    /\ pc = "generate"
    /\ Raise("generate", "RuntimeError")
    /\ UNCHANGED <<loopVars, oracle, sweepVars, product, result, disk>>

\* lines 203-223, and the loop header of line 199
Evaluate ==
    /\ pc = "evaluate"
    /\ LET evaluated == multi_criterion_evaluation(texts, si, oracle)
           score     == RescaleAll(ExtractScores(evaluated[1]))
           coherence == RescaleAll(ExtractScores(evaluated[2]))
           products  == ZipProducts(score, coherence)
       IN  /\ printed' = printed \cup LoggedErrors(si, evaluated)
           /\ calls' = Append(calls, [fn |-> "multi_criterion_evaluation",
                                      scale |-> scales[si],
                                      n_samples |-> N_SAMPLES])
           /\ individual_scores' = Append(individual_scores, score)
           /\ individual_coherences' = Append(individual_coherences, coherence)
           /\ individual_products' = Append(individual_products, products)
           /\ avg_score' = Append(avg_score, Mean(score))
           /\ avg_coh' = Append(avg_coh, Mean(coherence))
    /\ si' = si + 1
    /\ pc' = IF si = Len(scales) THEN "report" ELSE "generate"
    /\ UNCHANGED <<loopVars, oracle, texts, all_texts, injected, product,
                   result, disk, err>>

\* the evaluator call itself raises (not a per-sample error, which it catches)
EvaluateFails ==
    /\ pc = "evaluate"
    /\ Raise("evaluate", "RuntimeError")
    /\ UNCHANGED <<loopVars, oracle, sweepVars, product, result, disk>>

\* lines 226-240
Report ==
    /\ pc = "report"
    /\ product' = ProductCurve(avg_coh, avg_score)
    /\ result' = Summary(paths[path], Method, product')
    /\ pc' = "write_texts"
    /\ UNCHANGED <<loopVars, oracle, sweepVars, disk, err>>

\* lines 242-243
WriteTexts ==
    /\ pc = "write_texts"
    /\ disk' = disk \cup {File("generated_texts", paths[path], Method, TRUE)}
    /\ pc' = "plot"
    /\ UNCHANGED <<loopVars, oracle, sweepVars, product, result, err>>

\* WriteTextsFails with the exception caught by the loop, which goes on with
\* the next pair
WriteTextsFails_Swallowed ==
    /\ pc = "write_texts"
    /\ disk' = disk
    /\ err' = [step |-> "write_texts", kind |-> "OSError", path |-> path,
               method |-> Method, msg |-> <<>>]
    /\ IF mi < Len(Methods)
       THEN /\ mi' = mi + 1 /\ path' = path /\ pc' = "load"
       ELSE IF path < Len(paths)
       THEN /\ mi' = 1 /\ path' = path + 1 /\ pc' = "load"
       ELSE /\ mi' = mi /\ path' = path /\ pc' = "write_results"
    /\ UNCHANGED <<steer, loaded, oracle, sweepVars, product, result, results,
                   graph_data_list, started>>

\* open() raises and leaves no file, or json.dump raises and leaves the file
\* opened for writing behind
WriteTextsFails ==
    /\ pc = "write_texts"
    /\ \/ disk' = disk
       \/ disk' = disk \cup {File("generated_texts", paths[path], Method, FALSE)}
    /\ Raise("write_texts", "OSError")
    /\ UNCHANGED <<loopVars, oracle, sweepVars, product, result>>

\* line 245: plot
Plot ==
    /\ pc = "plot"
    /\ disk' = disk \cup {File("scores", paths[path], Method, TRUE)}
    /\ pc' = "return"
    /\ UNCHANGED <<loopVars, oracle, sweepVars, product, result, err>>

\* fig.write_image raises
PlotFails ==
    /\ pc = "plot"
    /\ \/ disk' = disk
       \/ disk' = disk \cup {File("scores", paths[path], Method, FALSE)}
    /\ Raise("plot", "OSError")
    /\ UNCHANGED <<loopVars, oracle, sweepVars, product, result>>

\* lines 248-259
GraphData ==
    [path |-> paths[path], method |-> Method, scales |-> scales,
     avg_coherence |-> avg_coh, avg_score |-> avg_score, product |-> product,
     individual_scores |-> individual_scores,
     individual_coherences |-> individual_coherences,
     individual_products |-> individual_products]

\* Return without the append to graph_data_list
Return_DropsGraphData ==
    /\ pc = "return"
    /\ results' = Append(results, result)
    /\ graph_data_list' = graph_data_list
    /\ IF mi < Len(Methods)
       THEN /\ mi' = mi + 1 /\ path' = path /\ pc' = "load"
       ELSE IF path < Len(paths)
       THEN /\ mi' = 1 /\ path' = path + 1 /\ pc' = "load"
       ELSE /\ mi' = mi /\ path' = path /\ pc' = "write_results"
    /\ UNCHANGED <<steer, loaded, oracle, sweepVars, product, result, started,
                   disk, err>>

\* Return with the two aggregate dumps inside the loop body
Return_WritesAggregates ==
    /\ pc = "return"
    /\ results' = Append(results, result)
    /\ graph_data_list' = Append(graph_data_list, GraphData)
    /\ disk' = disk \cup {File("steering_results", 0, "all", TRUE),
                          File("graph_data_all_methods", 0, "all", TRUE)}
    /\ IF mi < Len(Methods)
       THEN /\ mi' = mi + 1 /\ path' = path /\ pc' = "load"
       ELSE IF path < Len(paths)
       THEN /\ mi' = 1 /\ path' = path + 1 /\ pc' = "load"
       ELSE /\ mi' = mi /\ path' = path /\ pc' = "write_results"
    /\ UNCHANGED <<steer, loaded, oracle, sweepVars, product, result, started,
                   err>>

\* lines 248-261 and the caller's two appends; then the next method, the
\* next configuration, or the end of the loop
Return ==
    /\ pc = "return"
    /\ results' = Append(results, result)
    /\ graph_data_list' = Append(graph_data_list, GraphData)
    /\ IF mi < Len(Methods)
       THEN /\ mi' = mi + 1 /\ path' = path /\ pc' = "load"
       ELSE IF path < Len(paths)
       THEN /\ mi' = 1 /\ path' = path + 1 /\ pc' = "load"
       ELSE /\ mi' = mi /\ path' = path /\ pc' = "write_results"
    /\ UNCHANGED <<steer, loaded, oracle, sweepVars, product, result, started,
                   disk, err>>

\* lines 364-365
WriteResults ==
    /\ pc = "write_results"
    /\ disk' = disk \cup {File("steering_results", 0, "all", TRUE)}
    /\ pc' = "write_graph_data"
    /\ UNCHANGED <<loopVars, oracle, sweepVars, product, result, err>>

WriteResultsFails ==
    /\ pc = "write_results"
    /\ \/ disk' = disk
       \/ disk' = disk \cup {File("steering_results", 0, "all", FALSE)}
    /\ Raise("write_results", "OSError")
    /\ UNCHANGED <<loopVars, oracle, sweepVars, product, result>>

\* lines 366-367
WriteGraphData ==
    /\ pc = "write_graph_data"
    /\ disk' = disk \cup {File("graph_data_all_methods", 0, "all", TRUE)}
    /\ pc' = "done"
    /\ UNCHANGED <<loopVars, oracle, sweepVars, product, result, err>>

WriteGraphDataFails ==
    /\ pc = "write_graph_data"
    /\ \/ disk' = disk
       \/ disk' = disk \cup {File("graph_data_all_methods", 0, "all", FALSE)}
    /\ Raise("write_graph_data", "OSError")
    /\ UNCHANGED <<loopVars, oracle, sweepVars, product, result>>

Next ==
    \/ LoadActSteer
    \/ LoadSaeSteer
    \/ LoadOptimisedSteer
    \/ LoadPinvSteer
    \/ LoadUnknownMethod
    \/ LoadFails
    \/ AnalyseStart
    \/ AnalyseStartFails
    \/ Generate
    \/ GenerateFails
    \/ Evaluate
    \/ EvaluateFails
    \/ Report
    \/ WriteTexts
    \/ WriteTextsFails
    \/ Plot
    \/ PlotFails
    \/ Return
    \/ WriteResults
    \/ WriteResultsFails
    \/ WriteGraphData
    \/ WriteGraphDataFails

Spec == Init /\ [][Next]_vars

-----------------------------------------------------------------------------
(* Vocabulary of the properties *)

NumPairs == Len(paths) * Len(Methods)

\* the (configuration, method) pairs in the order of the run loop
ExpectedPairs ==
    [k \in 1..NumPairs |->
        <<paths[((k - 1) \div Len(Methods)) + 1],
          Methods[((k - 1) % Len(Methods)) + 1]>>]

IsPrefix(s, t) ==
    /\ Len(s) <= Len(t)
    /\ \A k \in 1..Len(s) : s[k] = t[k]

PairOf(rec) == <<rec.path, rec.method>>

OnDisk(kind, pair) ==
    \E f \in disk : f.kind = kind /\ f.path = pair[1] /\ f.method = pair[2]

CompleteOnDisk(kind, pair) == File(kind, pair[1], pair[2], TRUE) \in disk

AggregateKinds == {"steering_results", "graph_data_all_methods"}

AggregateOnDisk == \E f \in disk : f.kind \in AggregateKinds

InUnit(x) == 0 <= x[1] /\ x[1] <= x[2]

\* the sweep of the current call is over
SweepDone == pc \in {"report", "write_texts", "plot", "return"} \/ result # <<>>

-----------------------------------------------------------------------------
(* C1: every steering vector handed to analyse_steer, and so injected at    *)
(* every scale, has unit L2 norm, whatever the derivation method.           *)
C1_InjectedVectorsAreUnitNorm ==
    /\ pc \in {"analyse", "generate", "evaluate"} => IsUnit(steer)
    /\ \A k \in 1..Len(injected) : IsUnit(injected[k].vec)

-----------------------------------------------------------------------------
(* C2: the summary reports as scale_at_max the scale whose product          *)
(* mean(score) x mean(coherence) is maximal and as max_product that         *)
(* product; among scales sharing the maximum, the earliest one.             *)
C2_BestScaleIsFirstMaximum ==
    result # <<>> =>
        \E k \in 1..Len(scales) :
            LET prod(h) == RMul(avg_score[h], avg_coh[h])
            IN  /\ result.scale_at_max = scales[k]
                /\ result.max_product = prod(k)
                /\ \A h \in 1..Len(scales) : ~RLess(prod(k), prod(h))
                /\ \A h \in 1..(k - 1) : RLess(prod(h), prod(k))

\* a summary whose maximum is shared by a later scale, and is not at scale 0
C2_TieResolvedToFirst ==
    /\ result # <<>>
    /\ result.scale_at_max > 0
    /\ \E k, h \in 1..Len(scales) :
          /\ k < h
          /\ scales[k] = result.scale_at_max
          /\ RMul(avg_score[h], avg_coh[h]) = result.max_product

-----------------------------------------------------------------------------
(* C3 as stated: when writing generated_texts_<method>.json or the chart    *)
(* fails for a pair, every later pair of the run loop is still analysed.    *)
C3_LaterPairsStillAnalysed ==
    (pc = "aborted" /\ err.step \in {"write_texts", "plot"}) =>
        \A k \in 1..NumPairs : \E h \in 1..Len(started) :
            started[h] = ExpectedPairs[k]

(* C3 amended: a failure writing generated_texts_<method>.json or the chart *)
(* ends the run: the pairs analysed are exactly those up to the failing     *)
(* one, the failing pair gets no record, and no aggregate file is written.  *)
C3_WriteFailureEndsRun ==
    err.step \in {"write_texts", "plot"} =>
        /\ pc = "aborted"
        /\ IsPrefix(started, ExpectedPairs)
        /\ started # <<>>
        /\ started[Len(started)] = <<paths[err.path], err.method>>
        /\ Len(results) = Len(started) - 1
        /\ Len(graph_data_list) = Len(started) - 1
        /\ ~AggregateOnDisk

\* the chart of the first pair could not be written, and pairs remain
C3_FirstPairWriteFailed ==
    /\ pc = "aborted"
    /\ err.step = "plot"
    /\ started = <<ExpectedPairs[1]>>
    /\ NumPairs > 1

-----------------------------------------------------------------------------
(* C4: an evaluator error on a sample does not stop the sweep and the       *)
(* sample is kept: at every scale the per-sample score and coherence lists  *)
(* hold one entry per generated text, and both means are recorded.          *)
C4_EverySampleScoredAtEveryScale ==
    /\ Len(individual_scores) = Len(avg_score)
    /\ Len(individual_coherences) = Len(avg_score)
    /\ Len(avg_coh) = Len(avg_score)
    /\ Len(all_texts) = Len(avg_score)
          + (IF pc = "evaluate" \/ err.step = "evaluate" THEN 1 ELSE 0)
    /\ \A k \in 1..Len(avg_score) :
          /\ Len(individual_scores[k]) = Len(all_texts[k][2])
          /\ Len(individual_coherences[k]) = Len(all_texts[k][2])
    /\ \A e \in printed : e[1] <= Len(avg_score)
    /\ SweepDone => Len(avg_score) = Len(scales)

\* a sweep that ran to its end although the evaluator failed on a sample
C4_SweepCompletedDespiteError ==
    /\ pc = "return"
    /\ printed # {}
    /\ Len(avg_score) = Len(scales)

-----------------------------------------------------------------------------
(* C5: load_sae_model fails with an error naming the value for every value  *)
(* of sae_load_method other than 'saelens' and 'gemmascope', and returns no *)
(* autoencoder; a back-end is used only for its own name (or, the flag      *)
(* being absent, the documented default 'saelens').                         *)
C5_UnknownLoadMethodRaises ==
    loaded # NoLoad =>
        /\ loaded.flag \notin {Absent, "saelens", "gemmascope"} =>
              /\ loaded.backend = "none"
              /\ pc = "aborted"
              /\ err.kind = "ValueError"
              /\ err.msg = <<"Unknown sae_load_method: ", loaded.flag>>
        /\ loaded.flag \in {"saelens", "gemmascope"} =>
              loaded.backend = loaded.flag
        /\ loaded.flag = Absent => loaded.backend = "saelens"

\* the run ended on an unknown value of the flag
C5_RaisedOnUnknownValue ==
    /\ pc = "aborted"
    /\ err.kind = "ValueError"
    /\ loaded.flag = "sae_lens"
    /\ loaded.backend = "none"

-----------------------------------------------------------------------------
(* C6: a completed sweep has visited the 16 scales 0, 20, ..., 300 in       *)
(* ascending order, once each, with one generation of 256 samples followed  *)
(* by one evaluation per scale; 320 is never used.                          *)
C6_SweepVisitsSixteenScalesInOrder ==
    /\ Len(calls) <= 32
    /\ \A k \in 1..Len(calls) :
          /\ calls[k].scale = 20 * ((k - 1) \div 2)
          /\ calls[k].scale # 320
          /\ calls[k].n_samples = 256
          /\ calls[k].fn = IF k % 2 = 1 THEN "steer_model"
                           ELSE "multi_criterion_evaluation"
    /\ SweepDone =>
          /\ Len(calls) = 32
          /\ calls[32].scale = 300
          /\ Len(all_texts) = 16
          /\ \A k \in 1..16 : all_texts[k][1] = 20 * (k - 1)

\* a call of analyse_steer about to return, its sweep complete
C6_SweepComplete ==
    /\ pc = "return"
    /\ Len(calls) = 32
    /\ calls[31] = [fn |-> "steer_model", scale |-> 300, n_samples |-> 256]

-----------------------------------------------------------------------------
(* C7: a raw rubric score r in 1..10 is recorded as (r - 1) / 9, so 1 maps  *)
(* to 0 and 10 to 1, and every recorded sample value, mean and product lies *)
(* in [0, 1].                                                               *)
C7_RescaledScoresInUnitInterval ==
    /\ \A k \in 1..Len(individual_scores) :
          LET raw == multi_criterion_evaluation(all_texts[k][2], k, oracle)
          IN  \A j \in 1..Len(individual_scores[k]) :
                /\ raw[1][j].score \in RawScores
                /\ raw[2][j].score \in RawScores
                /\ individual_scores[k][j][1] * 9
                      = (raw[1][j].score - 1) * individual_scores[k][j][2]
                /\ individual_coherences[k][j][1] * 9
                      = (raw[2][j].score - 1) * individual_coherences[k][j][2]
                /\ raw[1][j].score = 1 => individual_scores[k][j] = <<0, 1>>
                /\ raw[1][j].score = 10 => individual_scores[k][j] = <<1, 1>>
                /\ InUnit(individual_scores[k][j])
                /\ InUnit(individual_coherences[k][j])
                /\ InUnit(individual_products[k][j])
    /\ \A k \in 1..Len(avg_score) : InUnit(avg_score[k]) /\ InUnit(avg_coh[k])
    /\ \A k \in 1..Len(product) : InUnit(product[k])
    /\ result # <<>> => InUnit(result.max_product)

\* a sweep that recorded both ends of the rubric
C7_BothEndsRecorded ==
    /\ pc = "return"
    /\ \E k \in 1..Len(individual_scores) :
          \E j \in 1..Len(individual_scores[k]) :
              individual_scores[k][j] = <<0, 1>>
    /\ \E k \in 1..Len(individual_scores) :
          \E j \in 1..Len(individual_scores[k]) :
              individual_scores[k][j] = <<1, 1>>

-----------------------------------------------------------------------------
(* C8: the run loop is sequential and yields one record per pair: results   *)
(* and graph_data_list hold the pairs in loop order (configurations in list *)
(* order, methods ActSteer, SAE, OptimisedSteer, PinverseSteer), an         *)
(* analysis starts only when the previous one has returned, and after the   *)
(* loop both hold 4 x (number of configurations) records.                   *)
C8_OneRecordPerPairInOrder ==
    /\ Len(graph_data_list) = Len(results)
    /\ Len(results) <= 4 * NumPaths
    /\ \A k \in 1..Len(results) :
          /\ PairOf(results[k]) = ExpectedPairs[k]
          /\ PairOf(graph_data_list[k]) = ExpectedPairs[k]
    /\ IsPrefix(started, ExpectedPairs)
    /\ Len(started) \in {Len(results), Len(results) + 1}
    /\ pc \in {"analyse", "generate", "evaluate", "report", "write_texts",
               "plot", "return"} =>
          ExpectedPairs[Len(results) + 1] = <<paths[path], Method>>
    /\ pc \in {"generate", "evaluate", "report", "write_texts", "plot",
               "return"} => Len(started) = Len(results) + 1
    /\ pc \in {"write_results", "write_graph_data", "done"} =>
          Len(results) = 4 * NumPaths

\* a complete run
C8_RunComplete ==
    /\ pc = "done"
    /\ Len(results) = 4 * NumPaths
    /\ PairOf(results[Len(results)]) = <<paths[NumPaths], "PinverseSteer">>

-----------------------------------------------------------------------------
(* C9: the two aggregate files are written only after every pair has been   *)
(* analysed; when a vector load, a generation, an evaluation or a per-pair  *)
(* write raises, neither is written, and the files of the pairs that        *)
(* finished before remain on disk.                                          *)
C9_AggregatesOnlyAfterAllPairs ==
    /\ AggregateOnDisk =>
          /\ Len(results) = NumPairs
          /\ started = ExpectedPairs
    /\ (pc = "aborted" /\ err.step \in {"load", "criteria", "generate",
                                          "evaluate", "write_texts", "plot"}) =>
          /\ ~AggregateOnDisk
          /\ \A k \in 1..Len(results) :
                /\ CompleteOnDisk("generated_texts", ExpectedPairs[k])
                /\ CompleteOnDisk("scores", ExpectedPairs[k])

\* a generation raised after an earlier pair had finished
C9_AbortedAfterFinishedPair ==
    /\ pc = "aborted"
    /\ err.step = "generate"
    /\ Len(results) >= 1
    /\ CompleteOnDisk("generated_texts", ExpectedPairs[1])
    /\ ~AggregateOnDisk

-----------------------------------------------------------------------------
(* C10: within a call of analyse_steer nothing is written before all 16     *)
(* scales are scored, then the texts file, then the chart, then the records *)
(* are returned; an exception in the sweep leaves no output of the pair, a  *)
(* failure writing the chart leaves the texts file and no record.           *)
C10_OutputsInFixedOrder ==
    /\ \A k \in 1..NumPairs :
          /\ OnDisk("generated_texts", ExpectedPairs[k]) =>
                /\ k <= Len(started)
                /\ k = Len(results) + 1 =>
                      (Len(avg_score) = 16 /\ result # <<>>)
          /\ OnDisk("scores", ExpectedPairs[k]) =>
                CompleteOnDisk("generated_texts", ExpectedPairs[k])
          /\ k <= Len(results) =>
                /\ CompleteOnDisk("generated_texts", ExpectedPairs[k])
                /\ CompleteOnDisk("scores", ExpectedPairs[k])
    /\ (pc = "aborted" /\ err.step \in {"criteria", "generate", "evaluate"}) =>
          /\ ~OnDisk("generated_texts", <<paths[err.path], err.method>>)
          /\ ~OnDisk("scores", <<paths[err.path], err.method>>)
    /\ (pc = "aborted" /\ err.step = "plot") =>
          /\ CompleteOnDisk("generated_texts", <<paths[err.path], err.method>>)
          /\ ~CompleteOnDisk("scores", <<paths[err.path], err.method>>)
          /\ \A k \in 1..Len(results) :
                PairOf(results[k]) # <<paths[err.path], err.method>>
          /\ \A k \in 1..Len(graph_data_list) :
                PairOf(graph_data_list[k]) # <<paths[err.path], err.method>>

\* the chart could not be written: the texts file is there, the record is not
C10_ChartFailedAfterTexts ==
    /\ pc = "aborted"
    /\ err.step = "plot"
    /\ CompleteOnDisk("generated_texts", <<paths[err.path], err.method>>)
    /\ Len(results) = 1

====
